---- MODULE Spec2Model ----
(***************************************************************************)
(* Model of data_process.py: windowing of a price series into (x,t) pairs, *)
(* date-range and symbol splits, and the augmentation pass.                *)
(*                                                                         *)
(* A date string 'YYYY-mm-dd' is the tuple <<YYYY, mm, dd>>; strptime maps *)
(* it to the proleptic Gregorian ordinal that datetime compares by.  A row *)
(* of a file's numeric array is <<symbol, i>>: row i (0-based) of the file *)
(* of that symbol; a window is a sequence of rows (a view on the array).   *)
(***************************************************************************)
EXTENDS Integers, Sequences, FiniteSets

VARIABLES
    pc,          \* "start", or the name of the function that has returned
    date_data,   \* dates column of one series
    data,        \* rows of that series
    directory,   \* the data files of a directory, in listing order
    dates_arg,   \* the six boundary dates passed to the date splitters
    x_length,    \* length of the x window
    t_length,    \* length of the t window
    range_arg,   \* start_date, end_date of get_data_within_date_range
    to_add,      \* the three slices of date_add_to_train_val_test
    x_t_pairs,   \* list returned by the windowing functions
    train,       \* (x,t) pairs for training
    val,         \* (x,t) pairs for validating
    test,        \* (x,t) pairs for testing
    file_lists,  \* train_files, val_files, test_files of the symbol split
    etfs_given,  \* the list of file names as given to split_etfs
    etfs,        \* that list, shuffled in place by split_etfs
    use_seed,    \* split_etfs shuffles iff use_seed
    random_seed, \* the seed split_etfs gives the generator
    split,       \* (test, val, train) returned by split_etfs
    aug          \* state of augment: original list, list, proportion, draws

vars == <<pc, date_data, data, directory, dates_arg, x_length, t_length,
          range_arg, to_add, x_t_pairs, train, val, test, file_lists,
          etfs_given, etfs, use_seed, random_seed, split, aug>>

inputVars == <<date_data, data, directory, dates_arg, x_length, t_length,
               range_arg>>

splitVars == <<etfs_given, etfs, use_seed, random_seed, split>>

----------------------------------------------------------------------------
(* Bounds of the model *)

MaxRows == 5
MaxLen == 1
MaxFiles == 2
MaxNames == 11
MaxShuffleAll == 7
MaxData == 3
MaxQuarters == 4

(* The calendar days the model draws dates from, in chronological order *)
AllDates ==
    << <<2013, 12, 31>>, <<2014, 1, 1>>, <<2014, 1, 2>>,
       <<2015, 5, 31>>, <<2015, 6, 1>> >>

Dates == {AllDates[i] : i \in 1..Len(AllDates)}

----------------------------------------------------------------------------
(* datetime.datetime.strptime(s, '%Y-%m-%d'), as the ordinal of the day *)

IsLeap(y) == (y % 4 = 0) /\ ((y % 100 # 0) \/ (y % 400 = 0))

DaysBeforeMonth(y, m) ==
    LET cum == <<0, 31, 59, 90, 120, 151, 181, 212, 243, 273, 304, 334>>
    IN  cum[m] + (IF m > 2 /\ IsLeap(y) THEN 1 ELSE 0)

strptime(s) ==
    LET y == s[1]
        m == s[2]
        d == s[3]
        p == y - 1
    IN  p * 365 + (p \div 4) - (p \div 100) + (p \div 400)
          + DaysBeforeMonth(y, m) + d

----------------------------------------------------------------------------
(* numpy / list slicing a[lo:hi] with Python's index normalisation *)

SliceIndex(i, n) ==
    IF i < 0 THEN (IF i + n < 0 THEN 0 ELSE i + n)
    ELSE IF i > n THEN n ELSE i

PySlice(a, lo, hi) ==
    LET n == Len(a)
        l == SliceIndex(lo, n)
        h == SliceIndex(hi, n)
    IN  IF l < h THEN SubSeq(a, l + 1, h) ELSE << >>

PySliceFrom(a, lo) == PySlice(a, lo, Len(a))

PySliceTo(a, hi) == PySlice(a, 0, hi)

(* range(n) as the 1-based positions of the list built in the loop *)
RangeLen(n) == IF n > 0 THEN n ELSE 0

----------------------------------------------------------------------------
(* load_price_data_into_numpy_array: the numeric array of the file of a    *)
(* symbol with n data lines, as its n rows                                 *)
Rows(sym, n) == [i \in 1..n |-> <<sym, i - 1>>]

----------------------------------------------------------------------------
(* make_x_t_tuple_tensor_pairs_in_place *)

(* variant: the loop runs one window further *)
make_x_t_pairs_one_more(d, input_length, output_length) ==
    LET N == Len(d)
    IN  [k \in 1..RangeLen(N - input_length - output_length + 1) |->
            LET i == k - 1
                start == i
                end == i + input_length
            IN  << PySlice(d, start, end),
                   PySlice(d, end, end + output_length) >>]

make_x_t_tuple_tensor_pairs_in_place(d, input_length, output_length) ==
    LET N == Len(d)
    IN  [k \in 1..RangeLen(N - input_length - output_length) |->
            LET i == k - 1
                start == i
                end == i + input_length
            IN  << PySlice(d, start, end),
                   PySlice(d, end, end + output_length) >>]

----------------------------------------------------------------------------
(* date_add_to_train_val_test *)

NoIndex ==
    [train_start_index |-> -1, train_end_index |-> -1,
     val_start_index |-> -1, val_end_index |-> -1,
     test_start_index |-> -1, test_end_index |-> -1]

(* one iteration of the index search, row i (0-based) of date_data *)
date_index_step(dd, b, i, idx) ==
    LET date_i == strptime(dd[i + 1])
    IN  IF date_i >= strptime(b.train_start_date) /\ idx.train_start_index = -1
          THEN [idx EXCEPT !.train_start_index = i]
        ELSE IF date_i >= strptime(b.train_end_date) /\ idx.train_end_index = -1
          THEN [idx EXCEPT !.train_end_index = i]
        ELSE IF date_i >= strptime(b.val_start_date) /\ idx.val_start_index = -1
          THEN [idx EXCEPT !.val_start_index = i]
        ELSE IF date_i >= strptime(b.val_end_date) /\ idx.val_end_index = -1
          THEN [idx EXCEPT !.val_end_index = i]
        ELSE IF date_i >= strptime(b.test_start_date) /\ idx.test_start_index = -1
          THEN [idx EXCEPT !.test_start_index = i]
        ELSE IF date_i >= strptime(b.test_end_date) /\ idx.test_end_index = -1
          THEN [idx EXCEPT !.test_end_index = i]
        ELSE idx

RECURSIVE date_index_loop(_, _, _, _)
date_index_loop(dd, b, i, idx) ==
    IF i >= Len(dd) THEN idx
    ELSE date_index_loop(dd, b, i + 1, date_index_step(dd, b, i, idx))

(* variant: the test slice starts where the validation slice starts *)
date_split_slices_from_val_start(dd, d, b) ==
    LET idx == date_index_loop(dd, b, 0, NoIndex)
    IN  [train_to_add |-> PySlice(d, idx.train_start_index, idx.train_end_index),
         val_to_add   |-> PySlice(d, idx.val_start_index, idx.val_end_index),
         test_to_add  |-> PySliceFrom(d, idx.val_start_index),
         idx          |-> idx]

date_split_slices(dd, d, b) ==
    LET idx == date_index_loop(dd, b, 0, NoIndex)
    IN  [train_to_add |-> PySlice(d, idx.train_start_index, idx.train_end_index),
         val_to_add   |-> PySlice(d, idx.val_start_index, idx.val_end_index),
         test_to_add  |-> PySliceFrom(d, idx.val_end_index),
         idx          |-> idx]

date_add_to_train_val_test(dd, d, tr, va, te, b, xl, tl) ==
    LET s == date_split_slices(dd, d, b)
    IN  [train  |-> tr \o make_x_t_tuple_tensor_pairs_in_place(s.train_to_add, xl, tl),
         val    |-> va \o make_x_t_tuple_tensor_pairs_in_place(s.val_to_add, xl, tl),
         test   |-> te \o make_x_t_tuple_tensor_pairs_in_place(s.test_to_add, xl, tl),
         to_add |-> s]

----------------------------------------------------------------------------
(* get_data_within_date_range *)

range_index_step(dd, start_date, end_date, i, idx) ==
    LET date_i == strptime(dd[i + 1])
    IN  IF date_i >= strptime(start_date) /\ idx.start_index = -1
          THEN [idx EXCEPT !.start_index = i]
        ELSE IF date_i >= strptime(end_date) /\ idx.end_index = -1
          THEN [idx EXCEPT !.end_index = i]
        ELSE idx

RECURSIVE range_index_loop(_, _, _, _, _)
range_index_loop(dd, start_date, end_date, i, idx) ==
    IF i >= Len(dd) THEN idx
    ELSE range_index_loop(dd, start_date, end_date, i + 1,
                          range_index_step(dd, start_date, end_date, i, idx))

(* variant: the slice is not cut at end_index *)
get_data_from_start_date(dd, d, xl, tl, start_date, end_date) ==
    LET idx == range_index_loop(dd, start_date, end_date, 0,
                                [start_index |-> -1, end_index |-> -1])
        data_in_range == PySliceFrom(d, idx.start_index)
    IN  make_x_t_tuple_tensor_pairs_in_place(data_in_range, xl, tl)

get_data_within_date_range(dd, d, xl, tl, start_date, end_date) ==
    LET idx == range_index_loop(dd, start_date, end_date, 0,
                                [start_index |-> -1, end_index |-> -1])
        data_in_range == PySlice(d, idx.start_index, idx.end_index)
    IN  make_x_t_tuple_tensor_pairs_in_place(data_in_range, xl, tl)

----------------------------------------------------------------------------
(* Inputs: series with ascending dates, boundary dates, window lengths *)

RECURSIVE Pick(_, _, _)
Pick(all, mask, i) ==
    IF i > Len(all) THEN << >>
    ELSE (IF mask[i] THEN <<all[i]>> ELSE << >>) \o Pick(all, mask, i + 1)

(* the dates columns: strictly ascending, at most MaxRows rows *)
Series ==
    {s \in {Pick(AllDates, m, 1) : m \in [1..Len(AllDates) -> BOOLEAN]} :
        Len(s) <= MaxRows}

Before(a, b) == strptime(a) <= strptime(b)

DayNumbers == 1..Len(AllDates)

Boundary(a, b, c, d, e, f) ==
    [train_start_date |-> a, train_end_date |-> b,
     val_start_date |-> c, val_end_date |-> d,
     test_start_date |-> e, test_end_date |-> f]

(* boundary dates with train_start <= train_end <= val_start <= val_end; *)
(* the two test dates are any dates                                      *)
OrderedBoundaries ==
    {Boundary(AllDates[q[1]], AllDates[q[2]], AllDates[q[3]], AllDates[q[4]],
              AllDates[q[5]], AllDates[q[6]]) :
        q \in {p \in DayNumbers \X DayNumbers \X DayNumbers \X DayNumbers
                      \X DayNumbers \X DayNumbers :
                 p[1] <= p[2] /\ p[2] <= p[3] /\ p[3] <= p[4]}}

Lengths == 0..MaxLen

(* nothing has been computed yet *)
Results ==
    /\ to_add = << >>
    /\ x_t_pairs = << >>
    /\ train = << >>
    /\ val = << >>
    /\ test = << >>
    /\ file_lists = << >>

NoDirectory == directory = << >>

NoSplit ==
    /\ etfs_given = << >> /\ etfs = << >> /\ split = << >>
    /\ use_seed = FALSE /\ random_seed = << >>

NoAugment == aug = << >>

NoSeries == date_data = << >> /\ data = << >>

----------------------------------------------------------------------------
(* One series: the date splitter *)

InitDateAdd ==
    /\ pc = "start"
    /\ date_data \in Series
    /\ data = Rows(1, Len(date_data))
    /\ dates_arg \in OrderedBoundaries
    /\ x_length \in Lengths
    /\ t_length = x_length
    /\ range_arg = << >> /\ Results /\ NoDirectory /\ NoSplit /\ NoAugment

DateAdd ==
    /\ pc = "start"
    /\ \E r \in {date_add_to_train_val_test(date_data, data, train, val, test,
                                             dates_arg, x_length, t_length)} :
           /\ train' = r.train
           /\ val' = r.val
           /\ test' = r.test
           /\ to_add' = r.to_add
    /\ pc' = "date_add_to_train_val_test"
    /\ UNCHANGED <<inputVars, x_t_pairs, file_lists, splitVars, aug>>

SpecDateAdd == InitDateAdd /\ [][DateAdd]_vars

----------------------------------------------------------------------------
(* One series: windowing and the date-range filter *)

InitRange ==
    /\ pc = "start"
    /\ date_data \in Series
    /\ data = Rows(1, Len(date_data))
    /\ range_arg \in {r \in Dates \X Dates : Before(r[1], r[2])}
    /\ x_length \in Lengths
    /\ t_length \in Lengths
    /\ dates_arg = << >>
    /\ Results /\ NoDirectory /\ NoSplit /\ NoAugment

MakePairs ==
    /\ pc = "start"
    /\ x_t_pairs' = make_x_t_tuple_tensor_pairs_in_place(data, x_length, t_length)
    /\ pc' = "make_x_t_tuple_tensor_pairs_in_place"
    /\ UNCHANGED <<inputVars, to_add, train, val, test, file_lists, splitVars,
                   aug>>

GetRange ==
    /\ pc = "start"
    /\ x_t_pairs' = get_data_within_date_range(date_data, data, x_length,
                                               t_length, range_arg[1], range_arg[2])
    /\ pc' = "get_data_within_date_range"
    /\ UNCHANGED <<inputVars, to_add, train, val, test, file_lists, splitVars,
                   aug>>

NextRange == MakePairs \/ GetRange

SpecRange == InitRange /\ [][NextRange]_vars

----------------------------------------------------------------------------
(* date_make_train_val_test_data: every file of the directory in turn *)

RECURSIVE date_make_loop(_, _, _, _, _, _)
date_make_loop(dir, k, acc, b, xl, tl) ==
    IF k > Len(dir) THEN acc
    ELSE LET file_dates == dir[k].dates
             file_data == Rows(dir[k].name, Len(file_dates))
             r == date_add_to_train_val_test(file_dates, file_data, acc.train,
                                             acc.val, acc.test, b, xl, tl)
         IN  date_make_loop(dir, k + 1,
                            [train |-> r.train, val |-> r.val, test |-> r.test],
                            b, xl, tl)

(* variant: the files are joined into one array, which is split once *)
RECURSIVE all_dates(_, _)
all_dates(dir, k) ==
    IF k > Len(dir) THEN << >> ELSE dir[k].dates \o all_dates(dir, k + 1)

RECURSIVE all_rows(_, _)
all_rows(dir, k) ==
    IF k > Len(dir) THEN << >>
    ELSE Rows(dir[k].name, Len(dir[k].dates)) \o all_rows(dir, k + 1)

date_make_joined_files(dir, xl, tl, b) ==
    LET r == date_add_to_train_val_test(all_dates(dir, 1), all_rows(dir, 1),
                                        << >>, << >>, << >>, b, xl, tl)
    IN  [train |-> r.train, val |-> r.val, test |-> r.test]

date_make_train_val_test_data(dir, xl, tl, b) ==
    date_make_loop(dir, 1, [train |-> << >>, val |-> << >>, test |-> << >>],
                   b, xl, tl)

----------------------------------------------------------------------------
(* data_split_symbol_and_date and its helper add_x_t_data *)

FileOf(dir, file_name) == CHOOSE f \in {dir[k] : k \in 1..Len(dir)} : f.name = file_name

(* the helper reads train_start_date and train_end_date of the enclosing *)
(* call; its own start_date and end_date are not used                    *)
RECURSIVE add_x_t_data(_, _, _, _, _, _, _, _, _)
add_x_t_data(files, dir, xl, tl, start_date, end_date, add_to_list, train_start_date, train_end_date) ==
    IF files = << >> THEN add_to_list
    ELSE LET f == FileOf(dir, Head(files))
             dates_array == f.dates
             data_array == Rows(f.name, Len(dates_array))
             to_add_ == get_data_within_date_range(dates_array, data_array, xl,
                            tl, train_start_date, train_end_date)
         IN  add_x_t_data(Tail(files), dir, xl, tl, start_date, end_date,
                          add_to_list \o to_add_, train_start_date,
                          train_end_date)

data_split_symbol_and_date(train_files, val_files, test_files, dir, b, xl, tl) ==
    [train |-> add_x_t_data(train_files, dir, xl, tl, b.train_start_date,
                            b.train_end_date, << >>, b.train_start_date,
                            b.train_end_date),
     val   |-> add_x_t_data(val_files, dir, xl, tl, b.val_start_date,
                            b.val_end_date, << >>, b.train_start_date,
                            b.train_end_date),
     test  |-> add_x_t_data(test_files, dir, xl, tl, b.test_start_date,
                            b.test_end_date, << >>, b.train_start_date,
                            b.train_end_date)]

----------------------------------------------------------------------------
(* A directory of files *)

(* a file lists every day of the calendar from its first day on, to the *)
(* last day of the calendar                                              *)
FileSeries ==
    {s \in {SubSeq(AllDates, a, Len(AllDates)) : a \in 1..Len(AllDates)} :
        Len(s) <= MaxRows}

(* os.listdir: the files of the directory, named 1..n *)
Directories ==
    UNION {{[k \in 1..n |-> [name |-> k, dates |-> f[k]]] :
                f \in [1..n -> FileSeries]} : n \in 0..MaxFiles}

file_names(dir) == [k \in 1..Len(dir) |-> dir[k].name]

(* the boundary dates of a directory split: the calendar and a day after *)
(* every row, the default test_end_date                                  *)
CutDates == AllDates \o << <<2030, 1, 1>> >>

(* consecutive ranges: train [c1,c2), val [c2,c3), test [c3,c4) *)
CutBoundaries ==
    {Boundary(CutDates[q[1]], CutDates[q[2]], CutDates[q[2]], CutDates[q[3]],
              CutDates[q[3]], CutDates[q[4]]) :
        q \in {p \in (1..Len(CutDates)) \X (1..Len(CutDates))
                      \X (1..Len(CutDates)) \X (1..Len(CutDates)) :
                 p[1] < p[2] /\ p[2] < p[3] /\ p[3] < p[4]}}

InitFiles ==
    /\ pc = "start"
    /\ directory \in Directories
    /\ dates_arg \in CutBoundaries
    /\ x_length \in Lengths
    /\ t_length \in Lengths
    /\ range_arg = << >> /\ Results /\ NoSeries /\ NoSplit /\ NoAugment

DateMake ==
    /\ pc = "start"
    /\ \E r \in {date_make_train_val_test_data(directory, x_length, t_length,
                                                dates_arg)} :
           /\ train' = r.train
           /\ val' = r.val
           /\ test' = r.test
    /\ pc' = "date_make_train_val_test_data"
    /\ UNCHANGED <<inputVars, to_add, x_t_pairs, file_lists, splitVars, aug>>

(* the three lists of file names are consecutive parts of the listing *)
SplitSymDate ==
    /\ pc = "start"
    /\ \E a \in 0..Len(directory) : \E z \in a..Len(directory) :
         LET names == file_names(directory)
             test_files == PySliceTo(names, a)
             val_files == PySlice(names, a, z)
             train_files == PySliceFrom(names, z)
         IN  \E r \in {data_split_symbol_and_date(train_files, val_files,
                           test_files, directory, dates_arg, x_length, t_length)} :
             /\ file_lists' = [train_files |-> train_files,
                               val_files |-> val_files,
                               test_files |-> test_files]
             /\ train' = r.train
             /\ val' = r.val
             /\ test' = r.test
    /\ pc' = "data_split_symbol_and_date"
    /\ UNCHANGED <<inputVars, to_add, x_t_pairs, splitVars, aug>>

NextFiles == DateMake \/ SplitSymDate

SpecFiles == InitFiles /\ [][NextFiles]_vars

----------------------------------------------------------------------------
(* split_etfs *)

(* random.shuffle: for i from n-1 down to 1, swap x[i] with x[j], where j *)
(* is the draw for i, 0 <= j <= i (indices 0-based)                      *)
RECURSIVE shuffle(_, _, _)
shuffle(x, i, draws) ==
    IF i < 1 THEN x
    ELSE LET j == draws[i]
         IN  shuffle([x EXCEPT ![i + 1] = x[j + 1], ![j + 1] = x[i + 1]],
                     i - 1, draws)

(* variant: the validation part runs one name into the training part *)
split_etfs_val_one_more(e, seeded, draws) ==
    LET split_ == Len(e) \div 10
        train_start == 4 * split_
        val_start == 2 * split_
        val_end == train_start
        test_end == val_start
        shuffled == IF seeded THEN shuffle(e, Len(e) - 1, draws) ELSE e
    IN  [etfs  |-> shuffled,
         test  |-> PySliceTo(shuffled, test_end),
         val   |-> PySlice(shuffled, val_start, val_end + 1),
         train |-> PySliceFrom(shuffled, train_start)]

(* variant: the unit of the split is a fifth of the list *)
split_etfs_fifths(e, seeded, draws) ==
    LET split_ == Len(e) \div 5
        train_start == 4 * split_
        val_start == 2 * split_
        val_end == train_start
        test_end == val_start
        shuffled == IF seeded THEN shuffle(e, Len(e) - 1, draws) ELSE e
    IN  [etfs  |-> shuffled,
         test  |-> PySliceTo(shuffled, test_end),
         val   |-> PySlice(shuffled, val_start, val_end),
         train |-> PySliceFrom(shuffled, train_start)]

(* split_etfs: the list after the call and the three lists returned;     *)
(* draws[i] is what the seeded generator draws for position i            *)
split_etfs(e, seeded, draws) ==
    LET split_ == Len(e) \div 10
        train_start == 4 * split_
        val_start == 2 * split_
        val_end == train_start
        test_end == val_start
        shuffled == IF seeded THEN shuffle(e, Len(e) - 1, draws) ELSE e
    IN  [etfs  |-> shuffled,
         test  |-> PySliceTo(shuffled, test_end),
         val   |-> PySlice(shuffled, val_start, val_end),
         train |-> PySliceFrom(shuffled, train_start)]

(* The seeds whose generator output is tabulated: 42 is the default *)
Seeds == {42, 0, 1, 2, 3, 4, 5, 6, 7, 8, 9, 43, 100, 12345}

(* random.seed(seed); random.shuffle(x): the draws for a list of n names, *)
(* n = 1..13, as <<j for i = 1, ..., j for i = n - 1>>                     *)
SeededDraws(seed) ==
    CASE seed = 42 ->
         <<<<>>,
            <<0>>,
            <<0, 2>>,
            <<1, 0, 0>>,
            <<1, 2, 0, 0>>,
            <<1, 2, 0, 0, 5>>,
            <<0, 0, 2, 0, 0, 5>>,
            <<0, 0, 1, 2, 5, 0, 1>>,
            <<0, 0, 1, 1, 2, 5, 0, 1>>,
            <<0, 2, 0, 1, 1, 1, 4, 0, 1>>,
            <<0, 2, 0, 1, 1, 1, 4, 0, 1, 10>>,
            <<1, 2, 0, 0, 1, 1, 3, 4, 0, 1, 10>>,
            <<1, 2, 0, 0, 5, 1, 3, 3, 4, 0, 1, 10>> >>
      [] seed = 0 ->
         <<<<>>,
            <<1>>,
            <<1, 1>>,
            <<0, 1, 3>>,
            <<1, 0, 3, 3>>,
            <<1, 1, 0, 3, 3>>,
            <<1, 1, 0, 3, 3, 6>>,
            <<1, 2, 2, 0, 3, 6, 6>>,
            <<1, 1, 3, 4, 2, 0, 6, 6>>,
            <<1, 1, 3, 3, 4, 2, 0, 6, 6>>,
            <<1, 1, 2, 3, 3, 4, 4, 0, 6, 6>>,
            <<0, 2, 2, 3, 2, 3, 7, 4, 0, 6, 6>>,
            <<0, 2, 2, 3, 2, 3, 7, 8, 4, 0, 6, 6>> >>
      [] seed = 1 ->
         <<<<>>,
            <<0>>,
            <<0, 0>>,
            <<0, 2, 1>>,
            <<0, 1, 0, 1>>,
            <<0, 1, 0, 4, 1>>,
            <<1, 0, 2, 0, 4, 1>>,
            <<1, 1, 0, 2, 0, 4, 2>>,
            <<1, 1, 3, 3, 0, 2, 1, 2>>,
            <<1, 2, 3, 3, 3, 0, 4, 1, 2>>,
            <<1, 2, 3, 3, 3, 0, 4, 1, 9, 2>>,
            <<0, 0, 3, 3, 3, 3, 1, 4, 1, 9, 2>>,
            <<0, 0, 3, 3, 3, 6, 7, 1, 4, 1, 9, 2>> >>
      [] seed = 2 ->
         <<<<>>,
            <<0>>,
            <<0, 0>>,
            <<0, 0, 0>>,
            <<1, 0, 0, 0>>,
            <<0, 1, 0, 0, 0>>,
            <<0, 1, 0, 0, 0, 6>>,
            <<1, 2, 1, 2, 0, 0, 0>>,
            <<0, 1, 2, 1, 2, 0, 1, 0>>,
            <<0, 2, 2, 2, 1, 2, 1, 1, 0>>,
            <<0, 2, 2, 2, 1, 6, 5, 1, 1, 0>>,
            <<0, 2, 2, 2, 5, 5, 2, 5, 1, 1, 0>>,
            <<0, 2, 0, 1, 4, 2, 4, 2, 5, 1, 1, 0>> >>
      [] seed = 3 ->
         <<<<>>,
            <<0>>,
            <<0, 0>>,
            <<0, 2, 1>>,
            <<1, 1, 1, 1>>,
            <<1, 1, 1, 4, 1>>,
            <<1, 1, 1, 4, 4, 1>>,
            <<1, 2, 2, 1, 4, 4, 3>>,
            <<0, 2, 0, 3, 4, 2, 2, 3>>,
            <<0, 2, 0, 3, 4, 2, 2, 8, 3>>,
            <<0, 2, 0, 3, 4, 2, 2, 8, 9, 3>>,
            <<0, 2, 0, 4, 3, 4, 5, 2, 8, 9, 3>>,
            <<1, 1, 0, 0, 4, 5, 7, 5, 2, 8, 9, 3>> >>
      [] seed = 4 ->
         <<<<>>,
            <<0>>,
            <<1, 0>>,
            <<0, 1, 1>>,
            <<1, 0, 2, 1>>,
            <<1, 2, 0, 2, 1>>,
            <<0, 1, 3, 0, 2, 1>>,
            <<0, 0, 3, 3, 0, 2, 3>>,
            <<0, 0, 3, 3, 5, 0, 4, 3>>,
            <<0, 0, 1, 3, 3, 5, 1, 4, 3>>,
            <<1, 0, 0, 0, 1, 3, 6, 1, 4, 3>>,
            <<1, 1, 0, 0, 0, 1, 7, 6, 1, 4, 3>>,
            <<1, 2, 3, 0, 0, 0, 2, 7, 6, 1, 4, 3>> >>
      [] seed = 5 ->
         <<<<>>,
            <<1>>,
            <<1, 2>>,
            <<1, 2, 2>>,
            <<1, 2, 2, 4>>,
            <<0, 2, 2, 2, 4>>,
            <<0, 1, 0, 2, 2, 4>>,
            <<0, 1, 0, 4, 2, 5, 4>>,
            <<0, 1, 0, 4, 5, 6, 5, 4>>,
            <<0, 1, 0, 4, 5, 6, 5, 4, 9>>,
            <<0, 0, 0, 1, 3, 6, 0, 5, 4, 9>>,
            <<0, 0, 0, 1, 3, 6, 0, 8, 5, 4, 9>>,
            <<1, 0, 1, 0, 1, 6, 7, 0, 8, 5, 4, 9>> >>
      [] seed = 6 ->
         <<<<>>,
            <<0>>,
            <<0, 2>>,
            <<1, 1, 0>>,
            <<1, 1, 0, 4>>,
            <<0, 1, 3, 0, 4>>,
            <<0, 1, 3, 0, 4, 6>>,
            <<1, 0, 0, 0, 2, 3, 1>>,
            <<1, 0, 0, 0, 2, 6, 7, 1>>,
            <<1, 0, 0, 0, 2, 6, 7, 1, 9>>,
            <<1, 2, 3, 1, 0, 0, 4, 7, 1, 9>>,
            <<1, 2, 3, 4, 1, 0, 0, 4, 7, 1, 9>>,
            <<1, 2, 3, 4, 1, 0, 0, 4, 7, 1, 9, 12>> >>
      [] seed = 7 ->
         <<<<>>,
            <<1>>,
            <<0, 1>>,
            <<1, 0, 2>>,
            <<0, 1, 1, 2>>,
            <<0, 2, 3, 1, 2>>,
            <<0, 0, 0, 3, 1, 2>>,
            <<0, 2, 0, 0, 3, 1, 5>>,
            <<0, 2, 0, 0, 5, 3, 2, 5>>,
            <<0, 1, 0, 0, 0, 5, 6, 2, 5>>,
            <<0, 2, 2, 0, 4, 0, 0, 6, 2, 5>>,
            <<0, 2, 2, 0, 4, 6, 1, 0, 6, 2, 5>>,
            <<0, 0, 1, 0, 4, 2, 1, 1, 0, 6, 2, 5>> >>
      [] seed = 8 ->
         <<<<>>,
            <<0>>,
            <<1, 0>>,
            <<1, 1, 1>>,
            <<0, 1, 2, 1>>,
            <<0, 0, 3, 2, 1>>,
            <<0, 0, 1, 3, 2, 1>>,
            <<0, 2, 1, 1, 3, 2, 3>>,
            <<0, 0, 0, 1, 1, 3, 5, 3>>,
            <<0, 0, 0, 0, 1, 1, 6, 5, 3>>,
            <<0, 0, 0, 0, 5, 1, 2, 6, 5, 3>>,
            <<0, 0, 1, 0, 0, 5, 3, 2, 6, 5, 3>>,
            <<0, 1, 1, 1, 1, 0, 0, 3, 2, 6, 5, 3>> >>
      [] seed = 9 ->
         <<<<>>,
            <<1>>,
            <<1, 1>>,
            <<1, 2, 3>>,
            <<0, 1, 2, 3>>,
            <<0, 1, 2, 4, 3>>,
            <<0, 0, 2, 2, 4, 3>>,
            <<0, 0, 1, 2, 2, 4, 7>>,
            <<1, 1, 0, 1, 1, 2, 5, 7>>,
            <<1, 2, 2, 0, 1, 1, 4, 5, 7>>,
            <<1, 2, 2, 0, 1, 1, 4, 5, 9, 7>>,
            <<1, 2, 2, 0, 5, 1, 2, 4, 5, 9, 7>>,
            <<1, 2, 2, 0, 5, 6, 2, 2, 4, 5, 9, 7>> >>
      [] seed = 43 ->
         <<<<>>,
            <<0>>,
            <<1, 0>>,
            <<0, 1, 0>>,
            <<0, 2, 2, 0>>,
            <<1, 1, 1, 2, 0>>,
            <<0, 1, 3, 1, 2, 0>>,
            <<0, 1, 3, 1, 5, 2, 0>>,
            <<0, 2, 2, 3, 1, 5, 4, 0>>,
            <<1, 2, 3, 0, 2, 3, 2, 4, 0>>,
            <<1, 2, 3, 0, 5, 2, 7, 2, 4, 0>>,
            <<1, 2, 3, 0, 5, 5, 5, 7, 2, 4, 0>>,
            <<1, 2, 0, 3, 4, 3, 1, 5, 7, 2, 4, 0>> >>
      [] seed = 100 ->
         <<<<>>,
            <<0>>,
            <<1, 0>>,
            <<1, 1, 1>>,
            <<0, 1, 3, 1>>,
            <<1, 0, 3, 3, 1>>,
            <<1, 2, 1, 3, 3, 1>>,
            <<1, 2, 3, 1, 3, 3, 2>>,
            <<0, 1, 2, 3, 1, 3, 7, 2>>,
            <<0, 1, 2, 3, 1, 6, 7, 7, 2>>,
            <<0, 2, 3, 2, 3, 5, 2, 7, 7, 2>>,
            <<0, 2, 0, 3, 2, 5, 6, 2, 7, 7, 2>>,
            <<1, 0, 0, 0, 4, 3, 5, 6, 2, 7, 7, 2>> >>
      [] seed = 12345 ->
         <<<<>>,
            <<1>>,
            <<0, 1>>,
            <<0, 2, 3>>,
            <<1, 1, 0, 3>>,
            <<0, 1, 2, 0, 3>>,
            <<0, 1, 2, 0, 5, 3>>,
            <<1, 0, 2, 2, 0, 5, 6>>,
            <<1, 1, 1, 2, 2, 6, 0, 6>>,
            <<1, 2, 2, 1, 2, 6, 4, 0, 6>>,
            <<1, 0, 3, 4, 2, 1, 5, 4, 0, 6>>,
            <<0, 1, 1, 3, 4, 2, 3, 5, 4, 0, 6>>,
            <<0, 1, 1, 3, 4, 2, 3, 5, 4, 0, 11, 6>> >>

TabulatedLen == Len(SeededDraws(42))

(* the draws of the generator under a tabulated seed, for n names *)
seeded_draws(seed, n) == IF n = 0 THEN << >> ELSE SeededDraws(seed)[n]

(* what the generator may draw under a seed that is not tabulated, for   *)
(* the positions 1..k: any j in 0..i for position i                      *)
RECURSIVE DrawStreams(_)
DrawStreams(k) ==
    IF k < 1 THEN {<< >>}
    ELSE {Append(d, j) : d \in DrawStreams(k - 1), j \in 0..k}

(* random_seed: a tabulated seed, or some other seed; the lists given    *)
(* with another seed have at most MaxShuffleAll names                    *)
SeedArguments ==
    {[tabulated |-> TRUE, seed |-> s] : s \in Seeds} \cup {[tabulated |-> FALSE]}

InitSplit ==
    /\ pc = "start"
    /\ \E n \in 0..MaxNames : etfs = [i \in 1..n |-> i]
    /\ etfs_given = etfs
    /\ use_seed \in BOOLEAN
    /\ random_seed \in SeedArguments
    /\ random_seed.tabulated => Len(etfs) <= TabulatedLen
    /\ ~random_seed.tabulated => Len(etfs) <= MaxShuffleAll
    /\ split = << >>
    /\ dates_arg = << >> /\ x_length = 0 /\ t_length = 0 /\ range_arg = << >>
    /\ Results /\ NoSeries /\ NoDirectory /\ NoAugment

SplitEtfs ==
    /\ pc = "start"
    /\ \E draws \in IF ~use_seed THEN {<< >>}
                    ELSE IF random_seed.tabulated
                      THEN {seeded_draws(random_seed.seed, Len(etfs))}
                      ELSE DrawStreams(Len(etfs) - 1) :
         \E r \in {split_etfs(etfs, use_seed, draws)} :
           /\ etfs' = r.etfs
           /\ split' = [test |-> r.test, val |-> r.val, train |-> r.train]
    /\ pc' = "split_etfs"
    /\ UNCHANGED <<inputVars, to_add, x_t_pairs, train, val, test, file_lists,
                   etfs_given, use_seed, random_seed, aug>>

SpecSplit == InitSplit /\ [][SplitEtfs]_vars

----------------------------------------------------------------------------
(* augment *)

(* add_noise_to_data_point: noise tensors of the shapes of x and t *)
add_noise_to_data_point(data_point) ==
    << [i \in 1..Len(data_point[1]) |-> "randn"],
       [i \in 1..Len(data_point[2]) |-> "randn"] >>

(* math.floor(augment_proportion * N), augment_proportion = quarters / 4 *)
num_new_examples(quarters, N) == (quarters * N) \div 4

(* random.randint(lo, hi) on the next word u of the generator *)
randint(lo, hi, u) == lo + (u % (hi - lo + 1))

(* the loop of augment, iteration i (0-based); words[i + 1] is the word  *)
(* of the generator that iteration i consumes                            *)
(* variant: the index is drawn over the list as it has grown so far *)
RECURSIVE augment_loop_over_grown_list(_, _, _, _, _)
augment_loop_over_grown_list(r, N, num, words, i) ==
    IF i >= num THEN r
    ELSE LET index == randint(0, Len(r.data) - 1, words[i + 1])
             data_point == r.data[index + 1]
         IN  augment_loop_over_grown_list(
                 [data  |-> Append(r.data, add_noise_to_data_point(data_point)),
                  index |-> Append(r.index, index)],
                 N, num, words, i + 1)

RECURSIVE augment_loop(_, _, _, _, _)
augment_loop(r, N, num, words, i) ==
    IF i >= num THEN r
    ELSE LET index == randint(0, N - 1, words[i + 1])
             data_point == r.data[index + 1]
         IN  augment_loop([data  |-> Append(r.data,
                                        add_noise_to_data_point(data_point)),
                           index |-> Append(r.index, index)],
                          N, num, words, i + 1)

(* augment: the list after the call, and the indices it drew *)
augment(d, quarters, words) ==
    LET N == Len(d)
    IN  augment_loop([data |-> d, index |-> << >>], N,
                     num_new_examples(quarters, N), words, 0)

(* examples of two shapes, windows of a series of four rows *)
Examples ==
    LET d == Rows(1, 4)
        one == make_x_t_tuple_tensor_pairs_in_place(d, 1, 1)
        two == make_x_t_tuple_tensor_pairs_in_place(d, 2, 1)
    IN  {one[k] : k \in 1..Len(one)} \cup {two[k] : k \in 1..Len(two)}

(* words of the seeded generator *)
Words == 0..(MaxData + 1)

InitAugment ==
    /\ pc = "start"
    /\ \E n \in 0..MaxData : \E d \in [1..n -> Examples] :
         \E q \in 0..MaxQuarters :
           aug = [given |-> d, data |-> d, quarters |-> q, index |-> << >>]
    /\ dates_arg = << >> /\ x_length = 0 /\ t_length = 0 /\ range_arg = << >>
    /\ Results /\ NoSeries /\ NoDirectory /\ NoSplit

Augment ==
    /\ pc = "start"
    /\ \E words \in [1..num_new_examples(aug.quarters, Len(aug.data)) -> Words] :
         \E r \in {augment(aug.data, aug.quarters, words)} :
           aug' = [aug EXCEPT !.data = r.data, !.index = r.index]
    /\ pc' = "augment"
    /\ UNCHANGED <<inputVars, to_add, x_t_pairs, train, val, test, file_lists,
                   splitVars>>

SpecAugment == InitAugment /\ [][Augment]_vars

----------------------------------------------------------------------------
(* Properties *)

RowsOf(a) == {a[i] : i \in 1..Len(a)}

PairRows(p) == RowsOf(p[1]) \cup RowsOf(p[2])

(* start <= date < end *)
WithinDates(date, start_date, end_date) ==
    /\ strptime(date) >= strptime(start_date)
    /\ strptime(date) < strptime(end_date)

(* the date of a row of a file of the directory *)
FileDate(row) == directory[row[1]].dates[row[2] + 1]

(* every row of every pair of the list is dated in [start_date, end_date) *)
PairsWithin(list, start_date, end_date) ==
    \A k \in 1..Len(list) : \A row \in PairRows(list[k]) :
        WithinDates(FileDate(row), start_date, end_date)

EachSetWithinItsDates ==
    /\ PairsWithin(train, dates_arg.train_start_date, dates_arg.train_end_date)
    /\ PairsWithin(val, dates_arg.val_start_date, dates_arg.val_end_date)
    /\ PairsWithin(test, dates_arg.test_start_date, dates_arg.test_end_date)

(* C1: after data_split_symbol_and_date every pair of train, val and test *)
(* has all its rows dated within the date range of its own set.           *)
C1_SplitSetsWithinOwnDates ==
    pc = "data_split_symbol_and_date" => EachSetWithinItsDates

(* C2: after date_make_train_val_test_data every pair of train, val and   *)
(* test has all its rows dated on or after the start date and before the  *)
(* end date of its partition.                                             *)
C2_DateMakeWithinOwnDates ==
    pc = "date_make_train_val_test_data" => EachSetWithinItsDates

OrderedDates(b) ==
    /\ Before(b.train_start_date, b.train_end_date)
    /\ Before(b.train_end_date, b.val_start_date)
    /\ Before(b.val_start_date, b.val_end_date)

(* C3: with ordered boundary dates the train, val and test slices of      *)
(* date_add_to_train_val_test share no row, also when an index stays -1.  *)
C3_SlicesDisjoint ==
    (pc = "date_add_to_train_val_test" /\ OrderedDates(dates_arg)) =>
        /\ RowsOf(to_add.train_to_add) \cap RowsOf(to_add.val_to_add) = {}
        /\ RowsOf(to_add.train_to_add) \cap RowsOf(to_add.test_to_add) = {}
        /\ RowsOf(to_add.val_to_add) \cap RowsOf(to_add.test_to_add) = {}

(* the three slices are not empty although val_end_index was never found *)
C3_Witness ==
    /\ pc = "date_add_to_train_val_test"
    /\ to_add.idx.val_end_index = -1
    /\ to_add.train_to_add # << >>
    /\ to_add.val_to_add # << >>
    /\ to_add.test_to_add # << >>

(* the pair is the window of x_length rows starting at row i of file f,  *)
(* followed by the next t_length rows of f                               *)
IsWindowOf(p, f, i) ==
    /\ i + x_length + t_length <= Len(directory[f].dates)
    /\ p[1] = [j \in 1..x_length |-> <<directory[f].name, i + j - 1>>]
    /\ p[2] = [j \in 1..t_length |-> <<directory[f].name, i + x_length + j - 1>>]

FromOneFile(list) ==
    \A k \in 1..Len(list) :
        \E f \in 1..Len(directory) : \E i \in 0..Len(directory[f].dates) :
            IsWindowOf(list[k], f, i)

(* C4: after either splitter has processed the files, every pair of       *)
(* train, val and test is made of consecutive rows of one single file.    *)
C4_PairsFromOneFile ==
    pc \in {"date_make_train_val_test_data", "data_split_symbol_and_date"} =>
        FromOneFile(train) /\ FromOneFile(val) /\ FromOneFile(test)

(* train holds pairs of two files, with x and t of one row each *)
C4_Witness ==
    /\ pc = "date_make_train_val_test_data"
    /\ x_length = 1 /\ t_length = 1
    /\ \E k \in 1..Len(train) : \E m \in 1..Len(train) :
          train[k][1][1][1] # train[m][1][1][1]

(* C5: the test, val and train lists of split_etfs are pairwise disjoint  *)
(* and every given name is in exactly one of them.                        *)
C5_SplitIsPartition ==
    pc = "split_etfs" =>
        LET all == split.test \o split.val \o split.train
        IN  /\ Len(all) = Len(etfs_given)
            /\ \A name \in RowsOf(etfs_given) :
                   Cardinality({i \in 1..Len(all) : all[i] = name}) = 1

(* eleven names, shuffled under the default seed, two of them in test and *)
(* two in val                                                            *)
C5_Witness ==
    /\ pc = "split_etfs"
    /\ Len(etfs_given) = 11
    /\ use_seed /\ random_seed = [tabulated |-> TRUE, seed |-> 42]
    /\ etfs = <<8, 4, 3, 9, 6, 7, 10, 5, 1, 2, 11>>
    /\ Len(split.test) = 2 /\ Len(split.val) = 2 /\ Len(split.train) = 7

(* C6 as stated: for every n >= 1, test holds 20%, val 20% and train 60%  *)
(* of the n names.                                                        *)
C6_Proportions ==
    (pc = "split_etfs" /\ Len(etfs_given) >= 1) =>
        /\ 5 * Len(split.test) = Len(etfs_given)
        /\ 5 * Len(split.val) = Len(etfs_given)
        /\ 5 * Len(split.train) = 3 * Len(etfs_given)

(* C6 amended: test and val hold 2 * floor(n / 10) names each and train   *)
(* the other n - 4 * floor(n / 10); that is 20%, 20% and 60% when n is a  *)
(* multiple of 10.                                                        *)
C6_TenthsOfTheList ==
    pc = "split_etfs" =>
        LET n == Len(etfs_given)
        IN  /\ Len(split.test) = 2 * (n \div 10)
            /\ Len(split.val) = 2 * (n \div 10)
            /\ Len(split.train) = n - 4 * (n \div 10)
            /\ n % 10 = 0 =>
                 /\ 5 * Len(split.test) = n
                 /\ 5 * Len(split.val) = n
                 /\ 5 * Len(split.train) = 3 * n

(* ten names: two in test, two in val, six in train *)
C6_Witness ==
    /\ pc = "split_etfs"
    /\ Len(etfs_given) = 10
    /\ Len(split.test) = 2 /\ Len(split.val) = 2 /\ Len(split.train) = 6

(* C7: every row dated on or after train_end_date and before val_end_date *)
(* lies in the validation slice of date_add_to_train_val_test.            *)
C7_ValHoldsTrainEndToValEnd ==
    pc = "date_add_to_train_val_test" =>
        \A i \in 1..Len(date_data) :
            WithinDates(date_data[i], dates_arg.train_end_date,
                        dates_arg.val_end_date)
                => data[i] \in RowsOf(to_add.val_to_add)

(* C8: make_x_t_tuple_tensor_pairs_in_place returns max(0, N - input -    *)
(* output) pairs; the i-th has x = rows [i, i + input) and t = rows       *)
(* [i + input, i + input + output).                                       *)
C8_Windows ==
    pc = "make_x_t_tuple_tensor_pairs_in_place" =>
        LET N == Len(data)
            count == IF N - x_length - t_length > 0
                       THEN N - x_length - t_length ELSE 0
        IN  /\ Len(x_t_pairs) = count
            /\ \A k \in 1..Len(x_t_pairs) :
                   /\ Len(x_t_pairs[k][1]) = x_length
                   /\ Len(x_t_pairs[k][2]) = t_length
                   /\ \A j \in 1..x_length :
                          x_t_pairs[k][1][j] = <<1, (k - 1) + (j - 1)>>
                   /\ \A j \in 1..t_length :
                          x_t_pairs[k][2][j] = <<1, (k - 1) + x_length + (j - 1)>>

(* several windows with x and t of one row each *)
C8_Witness ==
    /\ pc = "make_x_t_tuple_tensor_pairs_in_place"
    /\ x_length >= 1 /\ t_length >= 1
    /\ Len(x_t_pairs) >= 2

(* C9: with start_date <= end_date and x_length + t_length >= 1, every    *)
(* row of every pair of get_data_within_date_range is dated on or after   *)
(* start_date and before end_date, also when an index stays -1.           *)
C9_RangeOnly ==
    (/\ pc = "get_data_within_date_range"
     /\ Before(range_arg[1], range_arg[2])
     /\ x_length + t_length >= 1) =>
        \A k \in 1..Len(x_t_pairs) : \A row \in PairRows(x_t_pairs[k]) :
            WithinDates(date_data[row[2] + 1], range_arg[1], range_arg[2])

(* pairs are returned although no row reaches end_date *)
C9_Witness ==
    /\ pc = "get_data_within_date_range"
    /\ x_length + t_length >= 1
    /\ x_t_pairs # << >>
    /\ \A i \in 1..Len(date_data) :
           strptime(date_data[i]) < strptime(range_arg[2])

(* C10: augment appends floor(augment_proportion * N) examples, leaves    *)
(* the first N as they were, and makes each new one from an example of    *)
(* index 0..N-1; an empty list stays empty and nothing is drawn.          *)
C10_AugmentAppends ==
    pc = "augment" =>
        LET N == Len(aug.given)
            M == (aug.quarters * N) \div 4
        IN  /\ Len(aug.data) = N + M
            /\ SubSeq(aug.data, 1, N) = aug.given
            /\ Len(aug.index) = M
            /\ \A k \in 1..M :
                   /\ aug.index[k] \in 0..(N - 1)
                   /\ aug.data[N + k] =
                        add_noise_to_data_point(aug.given[aug.index[k] + 1])
            /\ N = 0 => (aug.data = << >> /\ aug.index = << >>)

(* three examples of two shapes, three new ones from two of them *)
C10_Witness ==
    /\ pc = "augment"
    /\ Len(aug.given) = 3
    /\ Len(aug.data) = 6
    /\ aug.index[1] # aug.index[2]
    /\ Len(aug.data[4][1]) # Len(aug.data[5][1])

====
